---------------------------- MODULE Spec2Model ----------------------------
(***************************************************************************)
(* A model of bot.py (daily_saint_bot): the reference normalizer _norm,    *)
(* the whole-word commemoration matcher _search_commemorations, the        *)
(* occasion resolver build_occasion, the document assembler                *)
(* format_markdown and the run of main.                                    *)
(*                                                                         *)
(* A Python str is a TLA+ string; a character is a string of length 1.     *)
(* The regular expressions of the source are translated one by one into    *)
(* operators over strings, for the ASCII characters [0-9A-Za-z_], the      *)
(* whitespace characters space, tab and newline, and punctuation.          *)
(***************************************************************************)
EXTENDS Integers, Sequences, FiniteSets, TLC

VARIABLES
    pc,                              \* the position of the run
    ref_a, ref_b, key_a, key_b,      \* two spellings of a reference and their _norm keys
    edits,                           \* the number of edits that made ref_b from ref_a
    key, found,                      \* _search_commemorations: its key and its result
    occasion_abbrev, oca_ref,        \* build_occasion: the abbreviation and the reference
    commemorations,                  \* the commemoration strings of the date
    orthocal_data,                   \* the alternate source's JSON for the date
    orthocal_index, day_titles,      \* build_orthocal_index(orthocal_data) and its titles
    occasion,                        \* build_occasion: its result
    today,                           \* main: the date, None until it is parsed
    oca_links, cursor,               \* main: the links of the daily page, the loop's position
    readings,                        \* main: the readings fetched so far
    stdout, exit_status,             \* main: the document printed, the exit status (None: none yet)
    orthocal_failed, daily_failed,   \* whether the fetch raised RequestException
    failed                           \* the indices of the reading pages whose fetch raised it

norm_vars == <<ref_a, ref_b, key_a, key_b, edits>>
search_vars == <<key, found>>
day_vars == <<commemorations, orthocal_data, orthocal_index, day_titles>>
occasion_vars == <<occasion_abbrev, oca_ref, occasion>>
pure_vars == <<norm_vars, search_vars, occasion_vars>>
net_vars == <<orthocal_failed, daily_failed, failed>>
main_vars == <<today, oca_links, cursor, readings, stdout, exit_status, net_vars>>
vars == <<pc, norm_vars, search_vars, day_vars, occasion_vars, main_vars>>

\* Python's None, and a value that is present
None == <<>>
Some(v) == <<v>>

---------------------------------------------------------------------------
(* Characters and character classes of Python's re module (str patterns). *)

At(s, i) == SubSeq(s, i, i)
From(s, i) == SubSeq(s, i, Len(s))
CharsOf(s) == {At(s, i) : i \in 1..Len(s)}

UpperCase == "ABCDEFGHIJKLMNOPQRSTUVWXYZ"
LowerCase == "abcdefghijklmnopqrstuvwxyz"
DigitSet == CharsOf("0123456789")
UpperSet == CharsOf(UpperCase)
LowerSet == CharsOf(LowerCase)
SpaceSet == {" ", "\t", "\n"}
WordSet == DigitSet \cup UpperSet \cup LowerSet \cup {"_"}
LowerMap == [c \in UpperSet |-> At(LowerCase, CHOOSE i \in 1..Len(UpperCase) : At(UpperCase, i) = c)]

\* \d
IsDigit(c) == c \in DigitSet
\* \s
IsSpace(c) == c \in SpaceSet
\* \w
IsWord(c) == c \in WordSet

LowerChar(c) == IF c \in UpperSet THEN LowerMap[c] ELSE c

RECURSIVE Lower(_)
\* str.lower()
Lower(s) == IF s = "" THEN "" ELSE LowerChar(At(s, 1)) \o Lower(From(s, 2))

\* s[i-1:] starts with the literal lit; with re.IGNORECASE when ic
LitAt(s, i, lit, ic) ==
    /\ i + Len(lit) - 1 <= Len(s)
    /\ LET t == SubSeq(s, i, i + Len(lit) - 1)
       IN  IF ic THEN Lower(t) = Lower(lit) ELSE t = lit

\* The end of the longest run of characters of class C that starts at i
\* (i-1 when the run is empty): a greedy [C]* from position i.
RunEnd(C, s, i) ==
    CHOOSE j \in (i - 1)..Len(s) :
        /\ \A k \in i..j : At(s, k) \in C
        /\ j = Len(s) \/ At(s, j + 1) \notin C

\* The same for a negated class: a greedy [^C]* from position i.
RunEndNot(C, s, i) ==
    CHOOSE j \in (i - 1)..Len(s) :
        /\ \A k \in i..j : At(s, k) \notin C
        /\ j = Len(s) \/ At(s, j + 1) \in C

RECURSIVE LStrip(_)
LStrip(s) == IF s # "" /\ IsSpace(At(s, 1)) THEN LStrip(From(s, 2)) ELSE s
RECURSIVE RStrip(_)
RStrip(s) == IF s # "" /\ IsSpace(At(s, Len(s))) THEN RStrip(SubSeq(s, 1, Len(s) - 1)) ELSE s
\* str.strip()
Strip(s) == RStrip(LStrip(s))

---------------------------------------------------------------------------
(* _norm *)

\* re.sub(r"^Composite \d+\s*-\s*", "", ref, flags=re.IGNORECASE)
StripComposite(ref) ==
    LET lit == "Composite "
        d0  == Len(lit) + 1
        d1  == RunEnd(DigitSet, ref, d0)
        s1  == RunEnd(SpaceSet, ref, d1 + 1)
        s2  == RunEnd(SpaceSet, ref, s1 + 2)
    IN  IF /\ LitAt(ref, 1, lit, TRUE)
           /\ d1 >= d0
           /\ LitAt(ref, s1 + 1, "-", FALSE)
        THEN From(ref, s2 + 1)
        ELSE ref

RECURSIVE KeepWordHyphen(_)
\* re.sub(r"[^\w-]", "", ref)
KeepWordHyphen(s) ==
    IF s = "" THEN ""
    ELSE (IF IsWord(At(s, 1)) \/ At(s, 1) = "-" THEN At(s, 1) ELSE "")
         \o KeepWordHyphen(From(s, 2))

_norm(ref) == Lower(KeepWordHyphen(StripComposite(ref)))

---------------------------------------------------------------------------
(* build_orthocal_index *)

\* dict.get(k, default)
Get(d, k, default) == IF k \in DOMAIN d THEN d[k] ELSE default

\* r.get("display", r.get("short_display", ""))
DisplayOf(r) == Get(r, "display", Get(r, "short_display", ""))

\* The dict built by the loop over orthocal_data.get("readings", []): a later
\* reading with the same normalized display overwrites an earlier one.
build_orthocal_index(data) ==
    LET rs == Get(data, "readings", <<>>)
        shown == {i \in 1..Len(rs) : DisplayOf(rs[i]) # ""}
        KeyOf(i) == _norm(DisplayOf(rs[i]))
        Last(k) == CHOOSE i \in shown : KeyOf(i) = k /\ \A j \in shown : KeyOf(j) = k => j <= i
    IN  [k \in {KeyOf(i) : i \in shown} |-> rs[Last(k)]]

---------------------------------------------------------------------------
(* _search_commemorations *)

\* whether position i of s (1..Len(s)) holds a \w character
WordAt(s, i) == i >= 1 /\ i <= Len(s) /\ IsWord(At(s, i))

\* \b between positions i-1 and i of s
Boundary(s, i) == WordAt(s, i - 1) # WordAt(s, i)

\* WholeWordIn without the word boundaries: a plain case-insensitive substring
SubstringIn(k, entry) ==
    \E i \in 1..(Len(entry) - Len(k) + 1) : LitAt(entry, i, k, TRUE)

\* re.compile(r"\b" + re.escape(key) + r"\b", re.IGNORECASE).search(entry)
WholeWordIn(k, entry) ==
    \E i \in 1..(Len(entry) - Len(k) + 1) :
        /\ Boundary(entry, i)
        /\ LitAt(entry, i, k, TRUE)
        /\ Boundary(entry, i + Len(k))

_search_commemorations(k, entries) ==
    IF k = "" \/ entries = <<>> THEN None
    ELSE LET hits == {i \in 1..Len(entries) : WholeWordIn(k, entries[i])}
         IN  IF hits = {} THEN None
             ELSE Some(entries[CHOOSE i \in hits : \A j \in hits : i <= j])

---------------------------------------------------------------------------
(* build_occasion *)

RECURSIVE CollapseWhitespace(_)
\* re.sub(r"\s+", " ", s)
CollapseWhitespace(s) ==
    IF s = "" THEN ""
    ELSE IF IsSpace(At(s, 1))
         THEN " " \o CollapseWhitespace(From(s, RunEnd(SpaceSet, s, 1) + 1))
         ELSE At(s, 1) \o CollapseWhitespace(From(s, 2))

\* lines 242-243
NormalizeAbbrev(abbrev) ==
    IF abbrev # "" THEN Strip(CollapseWhitespace(abbrev)) ELSE abbrev

\* re.fullmatch(r"\d+\w*\s+reading", s, re.IGNORECASE)
IsPositionalLabel(s) ==
    LET w  == RunEnd(WordSet, s, 1)
        sp == RunEnd(SpaceSet, s, w + 1)
    IN  /\ s # ""
        /\ IsDigit(At(s, 1))
        /\ sp > w
        /\ Lower(From(s, sp + 1)) = "reading"

\* DiscardPositional with a case-sensitive 'reading'
DiscardPositionalCased(abbrev) ==
    IF /\ abbrev # "" /\ IsPositionalLabel(abbrev)
       /\ LitAt(abbrev, Len(abbrev) - 6, "reading", FALSE)
    THEN "" ELSE abbrev

\* lines 246-247
DiscardPositional(abbrev) ==
    IF abbrev # "" /\ IsPositionalLabel(abbrev) THEN "" ELSE abbrev

\* re.match(r"\d", s)
StartsWithDigit(s) == s # "" /\ IsDigit(At(s, 1))

\* The alternatives of (St\.?|Ven\.?|Holy|The), in the order the regex tries them
TitleTokens == <<"St.", "St", "Ven.", "Ven", "Holy", "The">>

\* re.sub(r"^(St\.?|Ven\.?|Holy|The)\s+", "", s, flags=re.IGNORECASE).strip()
StripTitle(s) ==
    LET Matches(t) == /\ LitAt(s, 1, TitleTokens[t], TRUE)
                      /\ RunEnd(SpaceSet, s, Len(TitleTokens[t]) + 1) > Len(TitleTokens[t])
        alts == {t \in 1..Len(TitleTokens) : Matches(t)}
    IN  IF alts = {} THEN Strip(s)
        ELSE LET t == CHOOSE a \in alts : \A b \in alts : a <= b
             IN  Strip(From(s, RunEnd(SpaceSet, s, Len(TitleTokens[t]) + 1) + 1))

\* re.sub(r"^The\s+", "the ", m)
LowerLeadingThe(m) ==
    IF LitAt(m, 1, "The", FALSE) /\ RunEnd(SpaceSet, m, 4) >= 4
    THEN "the " \o From(m, RunEnd(SpaceSet, m, 4) + 1)
    ELSE m

\* re.match(r"^Saint\b", m, re.IGNORECASE)
StartsWithSaint(m) == LitAt(m, 1, "Saint", TRUE) /\ Boundary(m, 6)

\* lines 260-265, and again lines 283-286
PrefixArticle(m) ==
    LET m1 == LowerLeadingThe(m)
    IN  IF ~LitAt(m1, 1, "the ", FALSE) /\ ~StartsWithSaint(m1)
        THEN "the " \o m1
        ELSE m1

\* "if match:" on the result of _search_commemorations
Truthy(opt) == opt # None /\ opt[1] # ""

\* NamedOccasion that degrades to the stripped key
NamedOccasionKey(abbrev, entries) ==
    LET match == _search_commemorations(StripTitle(abbrev), entries)
    IN  IF Truthy(match) THEN PrefixArticle(match[1]) ELSE StripTitle(abbrev)

\* lines 256-266: the named feast or saint
NamedOccasion(abbrev, entries) ==
    LET match == _search_commemorations(StripTitle(abbrev), entries)
    IN  IF Truthy(match) THEN PrefixArticle(match[1]) ELSE abbrev

\* lines 269-273: the description the alternate source gives this reading
OrthocalDesc(ref, index) ==
    IF ref # "" /\ _norm(ref) \in DOMAIN index
    THEN Some(Strip(Get(index[_norm(ref)], "description", "")))
    ELSE None

\* DescribedOccasion that looks the description up with its title
DescribedOccasionTitled(desc, entries) ==
    IF StartsWithDigit(desc) THEN "the " \o desc
    ELSE LET match == _search_commemorations(desc, entries)
         IN  IF Truthy(match) THEN PrefixArticle(match[1]) ELSE desc

\* lines 277-287
DescribedOccasion(desc, entries) ==
    IF StartsWithDigit(desc) THEN "the " \o desc
    ELSE LET match == _search_commemorations(StripTitle(desc), entries)
         IN  IF Truthy(match) THEN PrefixArticle(match[1]) ELSE desc

\* re.match(r"(\w+) of the (\d+\w+) week after (.+)", title, re.IGNORECASE):
\* the ends of the three groups, <<>> when the title does not match
WeekTitleGroups(title) ==
    LET w  == RunEnd(WordSet, title, 1)
        o0 == w + Len(" of the ") + 1
        o1 == RunEnd(WordSet, title, o0)
        f0 == o1 + Len(" week after ") + 1
        f1 == RunEndNot({"\n"}, title, f0)
    IN  IF /\ w >= 1
           /\ LitAt(title, w + 1, " of the ", TRUE)
           /\ o0 <= Len(title) /\ IsDigit(At(title, o0))
           /\ o1 > o0
           /\ LitAt(title, o1 + 1, " week after ", TRUE)
           /\ f0 <= Len(title)
           /\ f1 >= f0
        THEN <<w, o0, o1, f0, f1>>
        ELSE <<>>

\* DayTitleOccasion that takes the last day title
DayTitleOccasionLast(titles) ==
    IF titles = <<>> THEN ""
    ELSE LET title == titles[Len(titles)]
             g == WeekTitleGroups(title)
         IN  IF g # <<>>
             THEN "the " \o SubSeq(title, g[2], g[3]) \o " " \o SubSeq(title, 1, g[1])
                  \o " after " \o SubSeq(title, g[4], g[5])
             ELSE IF StartsWithDigit(title) THEN "the " \o title
             ELSE title

\* lines 290-300
DayTitleOccasion(titles) ==
    IF titles = <<>> THEN ""
    ELSE LET title == titles[1]
             g == WeekTitleGroups(title)
         IN  IF g # <<>>
             THEN "the " \o SubSeq(title, g[2], g[3]) \o " " \o SubSeq(title, 1, g[1])
                  \o " after " \o SubSeq(title, g[4], g[5])
             ELSE IF StartsWithDigit(title) THEN "the " \o title
             ELSE title

\* build_occasion with the named step ahead of the weekday-ordinal step
build_occasion_named_first(abbrev0, ref, entries, index, titles) ==
    LET abbrev == DiscardPositional(NormalizeAbbrev(abbrev0))
        desc == OrthocalDesc(ref, index)
    IN  IF abbrev # "" /\ Lower(abbrev) \notin {"saint", "the", ""}
        THEN NamedOccasion(abbrev, entries)
        ELSE IF abbrev # "" /\ StartsWithDigit(abbrev) THEN "the " \o abbrev
        ELSE IF Truthy(desc) THEN DescribedOccasion(desc[1], entries)
        ELSE DayTitleOccasion(titles)

build_occasion(abbrev0, ref, entries, index, titles) ==
    LET abbrev == DiscardPositional(NormalizeAbbrev(abbrev0))
        desc == OrthocalDesc(ref, index)
    IN  IF abbrev # "" /\ StartsWithDigit(abbrev) THEN "the " \o abbrev
        ELSE IF abbrev # "" /\ Lower(abbrev) \notin {"saint", "the", ""}
             THEN NamedOccasion(abbrev, entries)
        ELSE IF Truthy(desc) THEN DescribedOccasion(desc[1], entries)
        ELSE DayTitleOccasion(titles)

---------------------------------------------------------------------------
(* get_oca_daily: what it makes of the anchors and the <strong> texts of    *)
(* the daily page                                                           *)

\* lines 114-123: the (index, text) of the first anchor of each index, sorted
LinksOf(anchors) ==
    LET ids == {anchors[i].idx : i \in 1..Len(anchors)}
        First(n) == CHOOSE i \in 1..Len(anchors) :
                        /\ anchors[i].idx = n
                        /\ \A j \in 1..(i - 1) : anchors[j].idx # n
        Rank(n) == Cardinality({m \in ids : m < n}) + 1
    IN  [k \in 1..Cardinality(ids) |->
            LET n == CHOOSE n \in ids : Rank(n) = k
            IN  <<n, anchors[First(n)].text>>]

\* re.sub(r"\s*\(\d{4}\)\s*$", "", entry).strip()
StripYear(entry) ==
    LET e == RStrip(entry)
        n == Len(e)
    IN  IF /\ n >= 6
           /\ At(e, n) = ")" /\ At(e, n - 5) = "("
           /\ \A i \in (n - 4)..(n - 1) : IsDigit(At(e, i))
        THEN Strip(SubSeq(e, 1, n - 6))
        ELSE Strip(entry)

RECURSIVE ReplaceAll(_, _, _)
\* str.replace(old, new), old not empty
ReplaceAll(text, old, new) ==
    IF text = "" THEN ""
    ELSE IF LitAt(text, 1, old, FALSE)
         THEN new \o ReplaceAll(From(text, Len(old) + 1), old, new)
         ELSE At(text, 1) \o ReplaceAll(From(text, 2), old, new)

\* The replacements of _clean_ligatures, in the order of the dict. Its other
\* four keys (the oe ligatures and the accented c's) are characters no TLA+
\* string can hold, so no string of the model holds them.
Ligatures == << <<"æ", "ae">>, <<"Æ", "Ae">> >>

RECURSIVE CleanFrom(_, _)
CleanFrom(text, k) ==
    IF k > Len(Ligatures) THEN text
    ELSE CleanFrom(ReplaceAll(text, Ligatures[k][1], Ligatures[k][2]), k + 1)

_clean_ligatures(text) == CleanFrom(text, 1)

RECURSIVE ExpandFrom(_, _, _, _)
\* re.sub(r"\b<abbr>\s+", full, text), from position i on
ExpandFrom(text, i, abbr, full) ==
    IF i > Len(text) THEN ""
    ELSE IF /\ Boundary(text, i)
            /\ LitAt(text, i, abbr, FALSE)
            /\ RunEnd(SpaceSet, text, i + Len(abbr)) >= i + Len(abbr)
         THEN full \o ExpandFrom(text, RunEnd(SpaceSet, text, i + Len(abbr)) + 1, abbr, full)
         ELSE At(text, i) \o ExpandFrom(text, i + 1, abbr, full)

_expand_titles(text) ==
    ExpandFrom(ExpandFrom(text, 1, "St.", "Saint "), 1, "Ven.", "Venerable ")

\* lines 134-140
CommemorationsOf(strongs) ==
    LET Clean(t) == _expand_titles(_clean_ligatures(StripYear(t)))
    IN  SelectSeq([i \in 1..Len(strongs) |-> Clean(strongs[i])], LAMBDA e : e # "")

---------------------------------------------------------------------------
(* get_oca_reading_page: what it makes of the <h2> texts and the <dd>      *)
(* texts of a reading page                                                  *)

Contains(s, c) == c \in CharsOf(s)


\* lines 167-172: the first h2 text with "(" and ")" in it
HeadingOf(h2) ==
    LET with == {i \in 1..Len(h2) : Contains(h2[i], "(") /\ Contains(h2[i], ")")}
    IN  IF with = {} THEN None
        ELSE Some(h2[CHOOSE i \in with : \A j \in with : i <= j])

\* re.split(r"\s*\(", heading, maxsplit=1)[0].strip()
RefOf(heading) ==
    LET q == CHOOSE q \in 1..Len(heading) :
                 At(heading, q) = "(" /\ \A j \in 1..(q - 1) : At(heading, j) # "("
    IN  Strip(RStrip(SubSeq(heading, 1, q - 1)))

\* re.search(r"\(([^)]+)\)", heading): group 1, or None
ParenOf(heading) ==
    LET opens == {q \in 1..Len(heading) :
                     /\ At(heading, q) = "("
                     /\ RunEndNot({")"}, heading, q + 1) > q
                     /\ RunEndNot({")"}, heading, q + 1) < Len(heading)}
    IN  IF opens = {} THEN None
        ELSE LET q == CHOOSE q \in opens : \A r \in opens : q <= r
             IN  Some(SubSeq(heading, q + 1, RunEndNot({")"}, heading, q + 1)))

\* [p.strip() for p in s.split(",", 1)]
SplitComma(s) ==
    IF Contains(s, ",")
    THEN LET c == CHOOSE c \in 1..Len(s) :
                      At(s, c) = "," /\ \A j \in 1..(c - 1) : At(s, j) # ","
         IN  <<Strip(SubSeq(s, 1, c - 1)), Strip(From(s, c + 1))>>
    ELSE <<Strip(s)>>

\* re.sub(r"^\d+\w+\s+(?=Matins Gospel)", "", raw_type).strip()
StripMatinsOrdinal(raw_type) ==
    LET w  == RunEnd(WordSet, raw_type, 1)
        sp == RunEnd(SpaceSet, raw_type, w + 1)
    IN  IF /\ StartsWithDigit(raw_type)
           /\ w >= 2
           /\ sp > w
           /\ LitAt(raw_type, sp + 1, "Matins Gospel", FALSE)
        THEN Strip(From(raw_type, sp + 1))
        ELSE Strip(raw_type)

\* " ".join(non-empty dd texts) or None
VerseOf(dd) ==
    LET parts == SelectSeq(dd, LAMBDA t : t # "")
        Joined[k \in 0..Len(parts)] ==
            IF k = 0 THEN ""
            ELSE IF k = 1 THEN parts[1]
            ELSE Joined[k - 1] \o " " \o parts[k]
    IN  IF Joined[Len(parts)] = "" THEN None ELSE Some(Joined[Len(parts)])

\* (ref, reading_type, occasion_abbrev, verse_text) of a fetched page
get_oca_reading_page(page) ==
    LET heading == HeadingOf(page.h2)
    IN  IF heading = None THEN <<None, None, None, None>>
        ELSE LET paren == ParenOf(heading[1])
                 parts == SplitComma(paren[1])
             IN  << Some(RefOf(heading[1])),
                    IF paren # None /\ parts[1] # ""
                        THEN Some(StripMatinsOrdinal(parts[1])) ELSE None,
                    IF paren # None /\ Len(parts) > 1 THEN Some(parts[2]) ELSE None,
                    VerseOf(page.dd) >>

\* x or default
Or(x, default) == IF x = None \/ x[1] = "" THEN default ELSE x[1]

\* lines 412-418: the reading main keeps for link (idx, link_text)
ReadingOf(link, page) ==
    LET got == get_oca_reading_page(page)
    IN  [index |-> link[1],
         ref |-> Or(got[1], link[2]),
         type |-> Or(got[2], ""),
         occasion |-> Or(got[3], ""),
         text |-> Or(got[4], "")]

---------------------------------------------------------------------------
(* format_markdown *)

MONTHS ==
    <<"January", "February", "March", "April", "May", "June",
      "July", "August", "September", "October", "November", "December">>
WEEKDAYS == <<"Monday", "Tuesday", "Wednesday", "Thursday", "Friday", "Saturday", "Sunday">>
SUNDAY_ONLY_TYPES == {"Matins Gospel"}
HASHTAGS == "#Christian #OrthodoxChristian #Bible #Scripture #Orthodox #Orthostr #Biblestr"

IsLeap(y) == y % 4 = 0 /\ (y % 100 # 0 \/ y % 400 = 0)
DaysInMonth(y, m) ==
    IF m = 2 THEN (IF IsLeap(y) THEN 29 ELSE 28)
    ELSE IF m \in {4, 6, 9, 11} THEN 30 ELSE 31
DaysBeforeMonth[m \in 1..12] ==
    IF m = 1 THEN 0 ELSE DaysBeforeMonth[m - 1] + (IF m - 1 = 2 THEN 28 ELSE DaysInMonth(1, m - 1))

\* date.toordinal(): the days since 0001-01-01, that day being 1
Ordinal(d) ==
    LET y == d.year - 1
    IN  y * 365 + (y \div 4) - (y \div 100) + (y \div 400)
        + DaysBeforeMonth[d.month] + (IF d.month > 2 /\ IsLeap(d.year) THEN 1 ELSE 0)
        + d.day

\* date.weekday(): Monday is 0, Sunday is 6
Weekday(d) == (Ordinal(d) + 6) % 7

\* f"{n:02d}"
Pad2(n) == IF n < 10 THEN "0" \o ToString(n) ELSE ToString(n)

\* f"{today.year}/{today.month:02d}/{today.day:02d}"
DatePath(d) == ToString(d.year) \o "/" \o Pad2(d.month) \o "/" \o Pad2(d.day)

\* Included without the Sunday-only filter
IncludedAnyDay(d, rs) == SelectSeq(rs, LAMBDA r : r.type # "")

\* lines 323-327
Included(d, rs) ==
    SelectSeq(rs, LAMBDA r : r.type # ""
                             /\ ~(r.type \in SUNDAY_ONLY_TYPES /\ Weekday(d) # 6))

\* lines 339-352
HeadingFor(r, entries, index, titles) ==
    IF r.type = "Matins Gospel"
    THEN "Matins Gospel reading (" \o r.ref \o ")"
    ELSE LET occ == build_occasion(r.occasion, r.ref, entries, index, titles)
         IN  IF occ # ""
             THEN r.type \o " reading for " \o occ \o " (" \o r.ref \o ")"
             ELSE r.type \o " reading (" \o r.ref \o ")"

\* lines 336-359: the lines of one included reading
ReadingLines(d, r, entries, index, titles) ==
    << "## [" \o HeadingFor(r, entries, index, titles) \o "]("
       \o "oca.org/readings/daily/" \o DatePath(d) \o "/" \o ToString(r.index) \o ")",
       "" >>
    \o (IF r.text # "" THEN << "> " \o r.text, "" >> ELSE << >>)

\* the list "lines" that format_markdown joins
MarkdownLines(d, rs, entries, index, titles) ==
    LET inc == Included(d, rs)
        Body[k \in 0..Len(inc)] ==
            IF k = 0 THEN << >>
            ELSE Body[k - 1] \o ReadingLines(d, inc[k], entries, index, titles)
    IN  << "# [Scripture Readings for " \o WEEKDAYS[Weekday(d) + 1] \o ", " \o Pad2(d.day)
           \o " " \o MONTHS[d.month] \o " " \o ToString(d.year)
           \o " (OCA)](oca.org/readings/daily/" \o DatePath(d) \o ")",
           "" >>
        \o (IF inc = << >> THEN << "*No readings found for this date.*", "" >>
            ELSE Body[Len(inc)])
        \o << HASHTAGS, "" >>

\* "\n".join(lines)
JoinLines(ls) ==
    LET J[k \in 1..Len(ls)] == IF k = 1 THEN ls[1] ELSE J[k - 1] \o "\n" \o ls[k]
    IN  J[Len(ls)]

format_markdown(d, rs, entries, index, titles) ==
    JoinLines(MarkdownLines(d, rs, entries, index, titles))

---------------------------------------------------------------------------
(* Bounds and sample inputs *)

\* the most edits that turn ref_a into ref_b
MaxEdits == 2
\* the longest commemoration list
MaxComms == 2

SeqsUpTo(S, n) == UNION {[1..m -> S] : m \in 0..n}
\* the lists of at most n distinct members of S
ListsUpTo(S, n) == {s \in SeqsUpTo(S, n) : \A i, j \in 1..Len(s) : s[i] = s[j] => i = j}

SampleRefs == {"Composite 3 - Jn 1:2", "Jn 1:2-3", "1 Cor. 2.8"}

SampleKeys == {"", "Ann", "Anna", "ANNA", "St.", "Holy Anna"}

SampleEntries ==
    {"Holy Anna the Prophetess", "Saint Ann", "Righteous anna", "St.John", "Annas"}

SampleAbbrevs ==
    {"", "Saint", "SAINT", "The", "1st reading", "2ND  Reading",
     "30th Thursday after Pentecost", "7th  Sunday", "Circumcision",
     "St. Innocent", "Holy  Cross", "Ann"}

SampleOcaRefs == {"", ".", "John 1:1", "Composite 3 - Luke 2:1-5"}

SampleCommemorations ==
    {"The Circumcision of our Lord", "THE CIRCUMCISION",
     "Saint Innocent, Bishop of Alaska", "Holy Anna the Prophetess",
     "Repose of Venerable Herman"}

\* What orthocal.info may answer for a date: readings with a display (or
\* short_display) reference and a description, and the titles of the day.
SampleOrthocal ==
    { << >>,
      [readings |-> << [display |-> "John 1.1", description |-> " St. Innocent "] >>,
       titles |-> << "Thursday of the 30th week after Pentecost", "Tone 5" >>],
      [readings |-> << [display |-> "John 1.1", description |-> "30th Thursday after Pentecost"] >>,
       titles |-> << "Theophany", "1st reading" >>],
      [readings |-> << [display |-> "Composite 1 - ", description |-> "Ven. Herman"],
                       [short_display |-> "Luke 2.1-5", description |-> "Theophany"] >>,
       titles |-> << "1st reading" >>],
      [readings |-> << [display |-> "John 1.1", description |-> "  "],
                       [display |-> "Luke 2.1-5"] >>,
       titles |-> << "thursday OF THE 2nd Week After Pascha\nTone 1" >>],
      [readings |-> << [display |-> "John 1:1", description |-> "Ann"],
                       [display |-> "john 1.1", description |-> "The Circumcision"] >>,
       titles |-> << "30th Thursday after Pentecost" >>],
      [titles |-> << "3rd of the 2nd week after Pentecost" >>],
      [readings |-> << >>, titles |-> << "Monday of the 3 week after Pentecost" >>],
      [readings |-> << >>, titles |-> << "" >>] }

---------------------------------------------------------------------------
(* The variables a specification does not use stay at these values. *)

NormIdle == ref_a = "" /\ ref_b = "" /\ key_a = "" /\ key_b = "" /\ edits = 0
SearchIdle == key = "" /\ found = None
DayIdle == commemorations = <<>> /\ orthocal_data = <<>> /\ orthocal_index = <<>> /\ day_titles = <<>>
OccasionIdle == occasion_abbrev = "" /\ oca_ref = "" /\ occasion = ""
MainIdle ==
    /\ today = None /\ oca_links = <<>> /\ cursor = 0 /\ readings = <<>>
    /\ stdout = None /\ exit_status = None
    /\ orthocal_failed = FALSE /\ daily_failed = FALSE /\ failed = {}

---------------------------------------------------------------------------
(* _norm on two spellings of one reference: ref_b is ref_a with separators *)
(* swapped between '.' and ':' and with whitespace inserted or removed.    *)

InitNorm ==
    /\ pc = "edit"
    /\ ref_a \in SampleRefs
    /\ ref_b = ref_a
    /\ key_a = "" /\ key_b = "" /\ edits = 0
    /\ SearchIdle /\ DayIdle /\ OccasionIdle /\ MainIdle

SwapSeparator ==
    /\ pc = "edit" /\ edits < MaxEdits
    /\ \E i \in 1..Len(ref_b) :
          /\ At(ref_b, i) \in {".", ":"}
          /\ ref_b' = SubSeq(ref_b, 1, i - 1)
                      \o (IF At(ref_b, i) = "." THEN ":" ELSE ".")
                      \o From(ref_b, i + 1)
    /\ edits' = edits + 1
    /\ UNCHANGED <<pc, ref_a, key_a, key_b, search_vars, day_vars, occasion_vars, main_vars>>

InsertSpace ==
    /\ pc = "edit" /\ edits < MaxEdits
    /\ \E i \in 0..Len(ref_b), c \in {" ", "\t"} :
          ref_b' = SubSeq(ref_b, 1, i) \o c \o From(ref_b, i + 1)
    /\ edits' = edits + 1
    /\ UNCHANGED <<pc, ref_a, key_a, key_b, search_vars, day_vars, occasion_vars, main_vars>>

DeleteSpace ==
    /\ pc = "edit" /\ edits < MaxEdits
    /\ \E i \in 1..Len(ref_b) :
          /\ IsSpace(At(ref_b, i))
          /\ ref_b' = SubSeq(ref_b, 1, i - 1) \o From(ref_b, i + 1)
    /\ edits' = edits + 1
    /\ UNCHANGED <<pc, ref_a, key_a, key_b, search_vars, day_vars, occasion_vars, main_vars>>

Normalize ==
    /\ pc = "edit"
    /\ key_a' = _norm(ref_a)
    /\ key_b' = _norm(ref_b)
    /\ pc' = "normalized"
    /\ UNCHANGED <<ref_a, ref_b, edits, search_vars, day_vars, occasion_vars, main_vars>>

NextNorm == SwapSeparator \/ InsertSpace \/ DeleteSpace \/ Normalize

SpecNorm == InitNorm /\ [][NextNorm]_vars

---------------------------------------------------------------------------
(* _search_commemorations on a key and a list of entries *)

InitSearch ==
    /\ pc = "call"
    /\ key \in SampleKeys
    /\ commemorations \in SeqsUpTo(SampleEntries, MaxComms)
    /\ found = None
    /\ orthocal_data = <<>> /\ orthocal_index = <<>> /\ day_titles = <<>>
    /\ NormIdle /\ OccasionIdle /\ MainIdle

Search ==
    /\ pc = "call"
    /\ found' = _search_commemorations(key, commemorations)
    /\ pc' = "return"
    /\ UNCHANGED <<key, norm_vars, day_vars, occasion_vars, main_vars>>

NextSearch == Search

SpecSearch == InitSearch /\ [][NextSearch]_vars

---------------------------------------------------------------------------
(* build_occasion on the data of one date, prepared as main prepares it    *)
(* (lines 386-388)                                                          *)

InitOccasion ==
    /\ pc = "call"
    /\ occasion_abbrev \in SampleAbbrevs
    /\ oca_ref \in SampleOcaRefs
    /\ commemorations \in ListsUpTo(SampleCommemorations, MaxComms)
    /\ orthocal_data \in SampleOrthocal
    /\ orthocal_index = build_orthocal_index(orthocal_data)
    /\ day_titles = Get(orthocal_data, "titles", <<>>)
    /\ occasion = ""
    /\ NormIdle /\ SearchIdle /\ MainIdle

Resolve ==
    /\ pc = "call"
    /\ occasion' = build_occasion(occasion_abbrev, oca_ref, commemorations,
                                  orthocal_index, day_titles)
    /\ pc' = "return"
    /\ UNCHANGED <<occasion_abbrev, oca_ref, norm_vars, search_vars, day_vars, main_vars>>

NextOccasion == Resolve

SpecOccasion == InitOccasion /\ [][NextOccasion]_vars

---------------------------------------------------------------------------
(* The run of main. The network answers are the environment's choice: each *)
(* fetch either raises requests.RequestException or returns what the       *)
(* parser finds in the page.                                                *)

SampleDates ==
    { [year |-> 2026, month |-> 1, day |-> 4],
      [year |-> 2026, month |-> 11, day |-> 2],
      [year |-> 2024, month |-> 2, day |-> 29] }

MainOrthocal ==
    { << >>,
      [readings |-> << [display |-> "John 1.1", description |-> " St. Innocent "] >>,
       titles |-> << "Thursday of the 30th week after Pentecost", "Tone 5" >>],
      [readings |-> << [display |-> "Hebrews 7.26-8.2", description |-> "30th Thursday after Pentecost"] >>,
       titles |-> << "Theophany" >>] }

\* the anchors that match the link pattern and the <strong> texts of a daily page
SampleDailyPages ==
    { [anchors |-> << [idx |-> 2, text |-> "Hebrews 7:26-8:2"],
                      [idx |-> 1, text |-> "John 21:1-14"],
                      [idx |-> 2, text |-> "Hebrews 7"],
                      [idx |-> 3, text |-> ""] >>,
       strongs |-> << "St. Innocent, Bishop of Alaska (1879)",
                      "The Circumcision of our Lord" >>],
      [anchors |-> << [idx |-> 5, text |-> "Luke 2:1-5"],
                      [idx |-> 4, text |-> "John 1:1"] >>,
       strongs |-> << "THE CIRCUMCISION", "(2001)", "Repose of Ven. Herman of Alaska" >>],
      [anchors |-> << >>, strongs |-> << >>] }

\* the <h2> texts and the <dd> texts of a reading page
SamplePages ==
    { [h2 |-> << "Daily Readings", "John 21:1-14 (10th  Matins Gospel)" >>,
       dd |-> << "Verse one.", "", "Verse two." >>],
      [h2 |-> << "Hebrews 7:26-8:2 (Epistle, Saint)" >>, dd |-> << "Text." >>],
      [h2 |-> << "Colossians 2:8-12 (Epistle, Circumcision)" >>, dd |-> << >>],
      [h2 |-> << "John 1:1 (Gospel)" >>, dd |-> << "In the beginning." >>],
      [h2 |-> << "Daily Readings" >>, dd |-> << "No heading." >>],
      [h2 |-> << "Luke 2:1-5 (Matins Gospel, 1st  reading)" >>, dd |-> << "Text." >>],
      [h2 |-> << "(6th Hour, 30th Thursday after Pentecost)" >>, dd |-> << >>] }

Init ==
    /\ pc = "start"
    /\ today = None
    /\ orthocal_data = <<>> /\ orthocal_index = <<>> /\ day_titles = <<>>
    /\ commemorations = <<>>
    /\ oca_links = <<>> /\ cursor = 0 /\ readings = <<>>
    /\ stdout = None /\ exit_status = None
    /\ orthocal_failed = FALSE /\ daily_failed = FALSE /\ failed = {}
    /\ NormIdle /\ SearchIdle /\ OccasionIdle

\* lines 372-381
ParseDate ==
    /\ pc = "start"
    /\ \E d \in SampleDates : today' = Some(d)
    /\ pc' = "orthocal"
    /\ UNCHANGED <<day_vars, oca_links, cursor, readings, stdout, exit_status, net_vars, pure_vars>>

\* lines 375-377: date.fromisoformat raises ValueError
RejectDate ==
    /\ pc = "start"
    /\ exit_status' = Some(1)
    /\ pc' = "done"
    /\ UNCHANGED <<today, day_vars, oca_links, cursor, readings, stdout, net_vars, pure_vars>>

\* lines 385-388
FetchOrthocal ==
    /\ pc = "orthocal"
    /\ \E data \in MainOrthocal :
          /\ orthocal_data' = data
          /\ orthocal_index' = build_orthocal_index(data)
          /\ day_titles' = Get(data, "titles", <<>>)
    /\ pc' = "daily"
    /\ UNCHANGED <<today, commemorations, oca_links, cursor, readings, stdout, exit_status, net_vars, pure_vars>>

\* lines 389-391
FetchOrthocalFails ==
    /\ pc = "orthocal"
    /\ orthocal_failed' = TRUE
    /\ orthocal_index' = <<>>
    /\ day_titles' = <<>>
    /\ pc' = "daily"
    /\ UNCHANGED <<today, commemorations, orthocal_data, oca_links, cursor, readings, stdout, exit_status, daily_failed, failed, pure_vars>>

\* lines 394-395
FetchDaily ==
    /\ pc = "daily"
    /\ \E page \in SampleDailyPages :
          /\ oca_links' = LinksOf(page.anchors)
          /\ commemorations' = CommemorationsOf(page.strongs)
    /\ cursor' = 1
    /\ pc' = "readings"
    /\ UNCHANGED <<today, orthocal_data, orthocal_index, day_titles, readings, stdout, exit_status, net_vars, pure_vars>>

\* lines 396-398
FetchDailyFails ==
    /\ pc = "daily"
    /\ daily_failed' = TRUE
    /\ exit_status' = Some(1)
    /\ pc' = "done"
    /\ UNCHANGED <<today, day_vars, oca_links, cursor, readings, stdout, orthocal_failed, failed, pure_vars>>

\* lines 405-418: one turn of the loop
FetchReading ==
    /\ pc = "readings" /\ cursor <= Len(oca_links)
    /\ \E page \in SamplePages :
          readings' = Append(readings, ReadingOf(oca_links[cursor], page))
    /\ cursor' = cursor + 1
    /\ UNCHANGED <<pc, today, day_vars, oca_links, stdout, exit_status, net_vars, pure_vars>>

\* FetchReadingFails that ends the run
FetchReadingAborts ==
    /\ pc = "readings" /\ cursor <= Len(oca_links)
    /\ failed' = failed \cup {oca_links[cursor][1]}
    /\ exit_status' = Some(1)
    /\ pc' = "done"
    /\ UNCHANGED <<today, day_vars, oca_links, cursor, readings, stdout, orthocal_failed, daily_failed, pure_vars>>

\* lines 409-411: one turn of the loop
FetchReadingFails ==
    /\ pc = "readings" /\ cursor <= Len(oca_links)
    /\ failed' = failed \cup {oca_links[cursor][1]}
    /\ cursor' = cursor + 1
    /\ UNCHANGED <<pc, today, day_vars, oca_links, readings, stdout, exit_status, orthocal_failed, daily_failed, pure_vars>>

\* lines 420-421
PrintMarkdown ==
    /\ pc = "readings" /\ cursor > Len(oca_links)
    /\ stdout' = Some(format_markdown(today[1], readings, commemorations,
                                      orthocal_index, day_titles) \o "\n")
    /\ exit_status' = Some(0)
    /\ pc' = "done"
    /\ UNCHANGED <<today, day_vars, oca_links, cursor, readings, net_vars, pure_vars>>

Next ==
    \/ ParseDate \/ RejectDate
    \/ FetchOrthocal \/ FetchOrthocalFails
    \/ FetchDaily \/ FetchDailyFails
    \/ FetchReading \/ FetchReadingFails
    \/ PrintMarkdown

Spec == Init /\ [][Next]_vars

---------------------------------------------------------------------------
(* The notions the properties are stated in *)

Returned == pc = "return"

BeginsWithDigit(s) == \E d \in DigitSet : LitAt(s, 1, d, FALSE)

\* entry e holds k, compared case-insensitively, with a word boundary on each side
ContainsWord(k, e) ==
    \E i \in 1..Len(e) :
        /\ i + Len(k) - 1 <= Len(e)
        /\ Lower(SubSeq(e, i, i + Len(k) - 1)) = Lower(k)
        /\ WordAt(e, i - 1) # WordAt(e, i)
        /\ WordAt(e, i + Len(k) - 1) # WordAt(e, i + Len(k))

\* the index of the first entry that holds k as a whole word, 0 when none does
FirstWith(k, entries) ==
    IF \E i \in 1..Len(entries) : ContainsWord(k, entries[i])
    THEN CHOOSE i \in 1..Len(entries) :
            /\ ContainsWord(k, entries[i])
            /\ \A j \in 1..(i - 1) : ~ContainsWord(k, entries[j])
    ELSE 0

\* the abbreviation after whitespace collapse and trim
Abbrev == NormalizeAbbrev(occasion_abbrev)

\* empty, or 'saint' or 'the' in any letter case
IsGeneric(s) == s = "" \/ Lower(s) \in {"saint", "the"}

\* the normalized reference is a key of the alternate index
RefIndexed == _norm(oca_ref) \in DOMAIN orthocal_index

\* the trimmed description the alternate index holds for the reference
Description == Strip(Get(orthocal_index[_norm(oca_ref)], "description", ""))

---------------------------------------------------------------------------
(* _search_commemorations *)

\* C7: _search_commemorations returns the first entry, in list order, that
\* holds the key as a case-insensitive whole word, and None when the key is
\* empty, the list is empty or no entry holds it.
SearchFirstWholeWord ==
    Returned =>
        found = IF key = "" \/ FirstWith(key, commemorations) = 0
                THEN None
                ELSE Some(commemorations[FirstWith(key, commemorations)])

\* key 'Ann' passes over 'Holy Anna the Prophetess' and finds 'Saint Ann'
SearchFirstWholeWordWitness ==
    /\ Returned
    /\ key = "Ann"
    /\ commemorations = <<"Holy Anna the Prophetess", "Saint Ann">>
    /\ found = Some("Saint Ann")

---------------------------------------------------------------------------
(* build_occasion *)

\* C1: an abbreviation that, after whitespace collapse and trim, begins with
\* a digit and is no bare positional label is returned as "the " + that
\* abbreviation, whatever the other arguments are.
OrdinalPriority ==
    Returned /\ BeginsWithDigit(Abbrev) /\ ~IsPositionalLabel(Abbrev)
        => occasion = "the " \o Abbrev

OrdinalPriorityWitness ==
    /\ Returned
    /\ occasion_abbrev = "7th  Sunday"
    /\ occasion = "the 7th Sunday"
    /\ Len(commemorations) = MaxComms
    /\ RefIndexed
    /\ day_titles # <<>>

\* the commemorations, the alternate index and the day titles are all empty
NothingElse == commemorations = <<>> /\ DOMAIN orthocal_index = {} /\ day_titles = <<>>

\* C2 as stated: a bare positional label never comes back as "the " + label,
\* resolves as the empty abbreviation does, and resolves to "" when the
\* commemorations, the alternate index and the day titles are empty.
PositionalNeverReturned ==
    Returned /\ IsPositionalLabel(Abbrev)
        => /\ occasion # "the " \o Abbrev
           /\ occasion # "the " \o occasion_abbrev
           /\ occasion = build_occasion("", oca_ref, commemorations,
                                        orthocal_index, day_titles)
           /\ NothingElse => occasion = ""

\* C2 as amended: a bare positional label resolves exactly as the empty
\* abbreviation does with the same other arguments, and to "" when the
\* commemorations, the alternate index and the day titles are empty.
PositionalAsEmpty ==
    Returned /\ IsPositionalLabel(Abbrev)
        => /\ occasion = build_occasion("", oca_ref, commemorations,
                                        orthocal_index, day_titles)
           /\ NothingElse => occasion = ""

PositionalAsEmptyWitness ==
    /\ Returned
    /\ occasion_abbrev = "2ND  Reading"
    /\ oca_ref = "John 1:1"
    /\ RefIndexed
    /\ occasion = "Saint Innocent, Bishop of Alaska"

\* what C3 says build_occasion returns for a description
ResolvedDescription ==
    LET k == StripTitle(Description)
        i == FirstWith(k, commemorations)
    IN  IF i = 0 THEN Description ELSE PrefixArticle(commemorations[i])

Unmatched(s) == FirstWith(StripTitle(s), commemorations) = 0

MatchReturned ==
    LET a == DiscardPositional(Abbrev)
    IN  \/ a # "" /\ ~BeginsWithDigit(a) /\ ~IsGeneric(a) /\ ~Unmatched(a)
        \/ /\ IsGeneric(a) /\ oca_ref # "" /\ RefIndexed
           /\ Description # "" /\ ~BeginsWithDigit(Description)
           /\ ~Unmatched(Description)

\* s begins with the article followed by the article again, in any letter case
DoubleArticle(s) ==
    /\ LitAt(s, 1, "the", TRUE) /\ Len(s) >= 4 /\ IsSpace(At(s, 4))
    /\ LitAt(s, 5, "the", TRUE) /\ ~WordAt(s, 8)

\* C5: a commemoration returned as a match never begins with two articles,
\* whatever the letter case of its leading article.
NoDoubleArticle == Returned /\ MatchReturned => ~DoubleArticle(occasion)

\* the reference has no non-empty alternate description
Undescribed == oca_ref = "" \/ ~RefIndexed \/ Description = ""

\* The ways to read title as <Weekday> of the <Ordinal> week after <Feast>
\* (case-insensitive): the ends <<w, o, f>> of the three parts, a weekday of
\* word characters, an ordinal of a digit and more word characters, and a
\* feast that runs to the end of the line.
WeekForms(title) ==
    LET n  == Len(title)
        Ws == {w \in 1..n : /\ \A i \in 1..w : IsWord(At(title, i))
                            /\ LitAt(title, w + 1, " of the ", TRUE)}
        Os(w) == {o \in (w + 10)..n : /\ IsDigit(At(title, w + 9))
                                      /\ \A i \in (w + 9)..o : IsWord(At(title, i))
                                      /\ LitAt(title, o + 1, " week after ", TRUE)}
        Fs(o) == {f \in (o + 13)..n : /\ \A i \in (o + 13)..f : At(title, i) # "\n"
                                      /\ f = n \/ At(title, f + 1) = "\n"}
    IN  UNION {UNION {{<<w, o, f>> : f \in Fs(o)} : o \in Os(w)} : w \in Ws}

\* what C6 says the first day title resolves to
ResolvedTitle(title) ==
    IF WeekForms(title) # {}
    THEN LET p == CHOOSE p \in WeekForms(title) : TRUE
         IN  "the " \o SubSeq(title, p[1] + 9, p[2]) \o " " \o SubSeq(title, 1, p[1])
             \o " after " \o SubSeq(title, p[2] + 13, p[3])
    ELSE IF BeginsWithDigit(title) THEN "the " \o title
    ELSE title

\* C6: with an empty, generic or positional abbreviation and no non-empty
\* alternate description, only the first day title is used: a title
\* '<Weekday> of the <Ordinal> week after <Feast>' becomes
\* "the <Ordinal> <Weekday> after <Feast>", a title that begins with a digit
\* becomes "the " + title, any other title is returned as it is, and the
\* result is "" when there is no day title.
DayTitleFallback ==
    Returned /\ IsGeneric(DiscardPositional(Abbrev)) /\ Undescribed
        => occasion = IF day_titles = <<>> THEN "" ELSE ResolvedTitle(day_titles[1])

DayTitleFallbackWitness ==
    /\ Returned
    /\ occasion_abbrev = "1st reading"
    /\ oca_ref = "Composite 3 - Luke 2:1-5"
    /\ commemorations # <<>>
    /\ day_titles = <<"Thursday of the 30th week after Pentecost", "Tone 5">>
    /\ occasion = "the 30th Thursday after Pentecost"

---------------------------------------------------------------------------
(* _norm *)

Normalized == pc = "normalized"

\* C8: two references that differ only in separator style ('.' or ':') and
\* in whitespace have the same normalized key.
NormJoinKeyStable == Normalized => key_a = key_b

---------------------------------------------------------------------------
(* format_markdown and main *)

Done == pc = "done"

\* the heading lines of document s, in their order: the lines that begin "## ["
HeadingLinesOf(s) ==
    LET starts == {a \in 1..Len(s) : /\ LitAt(s, a, "## [", FALSE)
                                     /\ a = 1 \/ At(s, a - 1) = "\n"}
        EndOf(a) == CHOOSE e \in a..Len(s) :
                        /\ e = Len(s) \/ At(s, e + 1) = "\n"
                        /\ \A i \in a..e : At(s, i) # "\n"
        Nth(k) == CHOOSE a \in starts : Cardinality({b \in starts : b < a}) = k - 1
    IN  [k \in 1..Cardinality(starts) |-> SubSeq(s, Nth(k), EndOf(Nth(k)))]

\* the heading lines of the document printed
HeadingLines == HeadingLinesOf(stdout[1])

EndsWith(s, t) == Len(s) >= Len(t) /\ From(s, Len(s) - Len(t) + 1) = t

\* the Sundays among the sample dates
Sundays == {[year |-> 2026, month |-> 1, day |-> 4]}

\* the readings that are to have a heading: those with a type, a Matins
\* Gospel only on a Sunday
Kept ==
    SelectSeq(readings, LAMBDA r : r.type # ""
                                   /\ (r.type = "Matins Gospel" => today[1] \in Sundays))

\* the link that ends the heading line of reading r
LinkOf(r) ==
    "](oca.org/readings/daily/" \o DatePath(today[1]) \o "/" \o ToString(r.index) \o ")"

\* C9: the heading lines of the document are those of the readings with a
\* non-empty type, in their order, without the Matins Gospel readings when
\* the date is no Sunday; on a Sunday the heading of a Matins Gospel reading
\* is 'Matins Gospel reading (<reference>)', with no occasion clause.
MatinsGospelOnSundayOnly ==
    Done /\ stdout # None
        => LET hs == HeadingLines
               kept == Kept
           IN  /\ Len(hs) = Len(kept)
               /\ \A k \in 1..Len(kept) :
                     /\ EndsWith(hs[k], LinkOf(kept[k]))
                     /\ kept[k].type = "Matins Gospel"
                            => hs[k] = "## [Matins Gospel reading (" \o kept[k].ref
                                       \o ")" \o LinkOf(kept[k])

\* a Sunday: a Matins Gospel reading with an occasion abbreviation, after
\* another reading, has its bare heading
MatinsGospelOnSundayOnlyWitness ==
    /\ Done /\ stdout # None
    /\ today[1] \in Sundays
    /\ Len(readings) = 2
    /\ readings[1].type = "Epistle"
    /\ readings[2].type = "Matins Gospel" /\ readings[2].occasion # ""
    /\ day_titles # <<>>
    /\ HeadingLines[2] = "## [Matins Gospel reading (Luke 2:1-5)](oca.org/readings/daily/2026/01/04/5)"

\* the indices of a sequence of links or of readings
LinkIds == [k \in 1..Len(oca_links) |-> oca_links[k][1]]
ReadingIds == [k \in 1..Len(readings) |-> readings[k].index]

\* C10: when the alternate-source fetch fails the run goes on with an empty
\* index and no day titles; when the fetch of a reading page fails exactly
\* that reading is left out and the others stay in index order; in both
\* cases the document is printed. The run ends with a non-zero exit status
\* and no document exactly when the fetch of the daily page fails.
AcquisitionFailures ==
    /\ orthocal_failed => DOMAIN orthocal_index = {} /\ day_titles = <<>>
    /\ Done /\ today # None
          => /\ daily_failed <=> exit_status # Some(0)
             /\ daily_failed <=> stdout = None
             /\ ~daily_failed
                   => /\ ReadingIds = SelectSeq(LinkIds, LAMBDA n : n \notin failed)
                      /\ \A k, l \in 1..Len(readings) :
                            k < l => readings[k].index < readings[l].index

\* the alternate source and the second of three reading pages failed, and
\* the document is printed with the other two readings
AcquisitionFailuresWitness ==
    /\ Done
    /\ orthocal_failed /\ failed = {2}
    /\ ReadingIds = <<1, 3>>
    /\ stdout # None /\ exit_status = Some(0)
    /\ Len(HeadingLines) = 2

=============================================================================
